---- MODULE Spec2Model ----
(***************************************************************************)
(* Model of generate_mapping.py (pymap): the two-pass static analysis that *)
(* collects function/method definitions and import tables from a list of   *)
(* Python files, resolves call names to qualified definitions and renders  *)
(* the sorted report.                                                      *)
(*                                                                         *)
(* Python strings are modelled as sequences of one-character strings so    *)
(* that str.startswith / str.endswith / str.split(".") are character-level *)
(* as in the code.  None (and the falsy empty string) is the empty         *)
(* sequence.  Dictionaries are functions whose DOMAIN is the key set.      *)
(***************************************************************************)
EXTENDS Integers, Sequences, FiniteSets, TLC

\* Largest number of files in the analysed file list.
MaxFiles == 3

None == <<>>
NoAnnotation == ""
Dot == "."

(***************************************************************************)
(* String helpers (Python str methods)                                     *)
(***************************************************************************)
StartsWith(s, p) == Len(p) <= Len(s) /\ SubSeq(s, 1, Len(p)) = p

EndsWith(s, p) == Len(p) <= Len(s) /\ SubSeq(s, Len(s) - Len(p) + 1, Len(s)) = p

\* s.split(".")[-1]
RECURSIVE LastSegment(_)
LastSegment(s) ==
    IF s = <<>> THEN <<>>
    ELSE IF s[Len(s)] = Dot THEN <<>>
    ELSE LastSegment(SubSeq(s, 1, Len(s) - 1)) \o <<s[Len(s)]>>

\* ".".join(parts)
RECURSIVE Join(_)
Join(parts) ==
    IF parts = <<>> THEN <<>>
    ELSE IF Len(parts) = 1 THEN parts[1]
    ELSE parts[1] \o <<Dot>> \o Join(Tail(parts))

\* x or y
OrElse(x, y) == IF x # None THEN x ELSE y

\* Code point of the characters the model uses (ordering of sorted()).
Ord(c) ==
    CASE c = "." -> 46
      [] c = "C" -> 67
      [] c = "D" -> 68
      [] c = "_" -> 95
      [] c = "a" -> 97
      [] c = "b" -> 98
      [] c = "c" -> 99
      [] c = "d" -> 100
      [] c = "e" -> 101
      [] c = "f" -> 102
      [] c = "g" -> 103
      [] c = "h" -> 104
      [] c = "i" -> 105
      [] c = "k" -> 107
      [] c = "m" -> 109
      [] c = "n" -> 110
      [] c = "p" -> 112
      [] c = "q" -> 113
      [] c = "s" -> 115
      [] c = "t" -> 116
      [] c = "u" -> 117
      [] c = "v" -> 118
      [] c = "w" -> 119
      [] c = "x" -> 120
      [] c = "y" -> 121
      [] c = "z" -> 122

\* s < t for Python strings (lexicographic by code point)
RECURSIVE StrLess(_, _)
StrLess(s, t) ==
    IF t = <<>> THEN FALSE
    ELSE IF s = <<>> THEN TRUE
    ELSE IF s[1] = t[1] THEN StrLess(Tail(s), Tail(t))
    ELSE Ord(s[1]) < Ord(t[1])

\* sorted(S) for a set of strings
RECURSIVE Sorted(_)
Sorted(S) ==
    IF S = {} THEN <<>>
    ELSE LET lo == CHOOSE x \in S : \A y \in S \ {x} : StrLess(x, y)
         IN  <<lo>> \o Sorted(S \ {lo})

(***************************************************************************)
(* get_module_name: rel is os.path.relpath(file_path, root) split on the   *)
(* path separator.                                                         *)
(***************************************************************************)
PySuffix == <<".", "p", "y">>
InitName == <<"_", "_", "i", "n", "i", "t", "_", "_">>

get_module_name(rel) ==
    LET n  == Len(rel)
        p1 == IF EndsWith(rel[n], PySuffix)
              THEN [rel EXCEPT ![n] = SubSeq(rel[n], 1, Len(rel[n]) - 3)]
              ELSE rel
        p2 == IF p1[n] = InitName THEN SubSeq(p1, 1, n - 1) ELSE p1
    IN  Join(p2)

(***************************************************************************)
(* Syntax trees (module ast).  Only the node kinds and fields the analysis *)
(* reads are kept; annotations are kept as their unparsed text.            *)
(***************************************************************************)
Name(id) == [kind |-> "Name", id |-> id]
Attribute(value, attr) == [kind |-> "Attribute", value |-> value, attr |-> attr]
Call(func, args) == [kind |-> "Call", func |-> func, args |-> args]
Subscript(value) == [kind |-> "Subscript", value |-> value]
Lambda(body) == [kind |-> "Lambda", body |-> body]
ExprStmt(value) == [kind |-> "Expr", value |-> value]
Pass == [kind |-> "Pass"]
IfStmt(body) == [kind |-> "If", body |-> body]
Arg(a, annotation) == [arg |-> a, annotation |-> annotation]
FunctionDef(name, args, returns, body) ==
    [kind |-> "FunctionDef", name |-> name, args |-> args, returns |-> returns, body |-> body]
AsyncFunctionDef(name, args, returns, body) ==
    [kind |-> "AsyncFunctionDef", name |-> name, args |-> args, returns |-> returns, body |-> body]
ClassDef(name, body) == [kind |-> "ClassDef", name |-> name, body |-> body]
Alias(name, asname) == [name |-> name, asname |-> asname]
Import(names) == [kind |-> "Import", names |-> names]
ImportFrom(module, names) == [kind |-> "ImportFrom", module |-> module, names |-> names]

IsFunctionDef(node) == node.kind \in {"FunctionDef", "AsyncFunctionDef"}

\* ast.iter_child_nodes
Children(node) ==
    CASE node.kind \in {"FunctionDef", "AsyncFunctionDef", "ClassDef", "If"} -> node.body
      [] node.kind = "Expr" -> <<node.value>>
      [] node.kind = "Call" -> <<node.func>> \o node.args
      [] node.kind \in {"Attribute", "Subscript"} -> <<node.value>>
      [] node.kind = "Lambda" -> <<node.body>>
      [] OTHER -> <<>>

\* ast.walk: breadth-first over a queue seeded with the node
RECURSIVE WalkQueue(_)
WalkQueue(todo) ==
    IF todo = <<>> THEN <<>>
    ELSE <<Head(todo)>> \o WalkQueue(Tail(todo) \o Children(Head(todo)))

Walk(node) == WalkQueue(<<node>>)

(***************************************************************************)
(* The source files the file list is drawn from.  A file is its path       *)
(* relative to the root (split on the separator), whether ast.parse        *)
(* accepts it, and its parsed top-level body.                              *)
(***************************************************************************)
SrcFile(rel, parses, body) == [rel |-> rel, parses |-> parses, body |-> body]

CallName(c) == ExprStmt(Call(Name(<<c>>), <<>>))
CallAttr(r, c) == ExprStmt(Call(Attribute(Name(<<r>>), <<c>>), <<>>))

\* a.py
File_a ==
    SrcFile(<< <<"a", ".", "p", "y">> >>, TRUE,
      << ImportFrom(<<"b">>, << Alias(<<"g">>, <<"v">>) >>),
         Import(<< Alias(<<"b", "c">>, <<"k">>) >>),
         FunctionDef(<<"h">>, << Arg(<<"x">>, "int") >>, "str", << Pass >>),
         FunctionDef(<<"f">>, <<>>, NoAnnotation,
            << CallName("h"), CallName("h"), CallName("v"), CallAttr("k", "t"),
               CallName("p") >>),
         ClassDef(<<"C">>,
            << FunctionDef(<<"m">>, << Arg(<<"s">>, NoAnnotation) >>, NoAnnotation,
                  << CallAttr("s", "h"),
                     ExprStmt(Call(Attribute(Attribute(Name(<<"x">>), <<"y">>), <<"g">>), <<>>)),
                     ExprStmt(Call(Subscript(Name(<<"d">>)), <<>>)),
                     ExprStmt(Call(Call(Name(<<"w">>), <<>>), <<>>)) >>),
               ClassDef(<<"D">>,
                  << FunctionDef(<<"n">>, <<>>, NoAnnotation, << CallName("u") >>) >>) >>) >>)

\* a/__init__.py (module a, like a.py)
File_a_init ==
    SrcFile(<< <<"a">>, InitName \o PySuffix >>, TRUE,
      << ImportFrom(<<"z">>, << Alias(<<"u">>, None) >>),
         FunctionDef(<<"h">>, <<>>, NoAnnotation, << CallName("u") >>),
         FunctionDef(<<"e">>, << Arg(<<"y">>, NoAnnotation) >>, "int", << CallName("e") >>) >>)

\* a/__init__.py with a syntax error
File_a_init_bad == SrcFile(<< <<"a">>, InitName \o PySuffix >>, FALSE, <<>>)

\* b.py
File_b ==
    SrcFile(<< <<"b", ".", "p", "y">> >>, TRUE,
      << FunctionDef(<<"u">>, << Arg(<<"x">>, "int") >>, "int", << CallName("h") >>),
         FunctionDef(<<"u">>, <<>>, NoAnnotation, << Pass >>),
         FunctionDef(<<"h">>, <<>>, NoAnnotation, << Pass >>),
         AsyncFunctionDef(<<"g">>, <<>>, NoAnnotation, << CallName("h") >>) >>)

\* bc.py
File_bc ==
    SrcFile(<< <<"b", "c", ".", "p", "y">> >>, TRUE,
      << ImportFrom(None, << Alias(<<"q">>, None) >>),
         FunctionDef(<<"u">>, <<>>, NoAnnotation, << Pass >>),
         FunctionDef(<<"t">>, <<>>, NoAnnotation, << CallName("q") >>) >>)

\* a/s.py (module a.s)
File_a_s ==
    SrcFile(<< <<"a">>, <<"s", ".", "p", "y">> >>, TRUE,
      << FunctionDef(<<"h">>, <<>>, NoAnnotation, << Pass >>),
         FunctionDef(<<"q">>, <<>>, NoAnnotation,
            << FunctionDef(<<"i">>, <<>>, NoAnnotation, << CallName("u") >>),
               ExprStmt(Call(Lambda(Call(Name(<<"h">>), <<>>)), <<>>)) >>),
         IfStmt(<< FunctionDef(<<"w">>, <<>>, NoAnnotation, << Pass >>) >>) >>)

\* a/C.py (module a.C)
File_a_C ==
    SrcFile(<< <<"a">>, <<"C", ".", "p", "y">> >>, TRUE,
      << ImportFrom(<<"b">>, << Alias(<<"u">>, None) >>),
         FunctionDef(<<"m">>, <<>>, "int", << CallName("u") >>) >>)

\* bad.py with a syntax error
File_bad == SrcFile(<< <<"b", "a", "d", ".", "p", "y">> >>, FALSE, <<>>)

Catalogue ==
    {File_a, File_a_init, File_a_init_bad, File_b, File_bc, File_a_s, File_a_C, File_bad}

\* The file lists find_python_files can return: distinct paths, any order.
FileLists ==
    {fl \in UNION {[1..n -> Catalogue] : n \in 1..MaxFiles} :
        \A i, j \in DOMAIN fl : i # j => fl[i].rel # fl[j].rel}

(***************************************************************************)
(* collect_functions_and_imports                                           *)
(***************************************************************************)
EmptyDict == [x \in {} |-> None]

\* d[k] = v
Put(d, k, v) == [x \in DOMAIN d \cup {k} |-> IF x = k THEN v ELSE d[x]]

\* d.get(k, {})
GetOrEmpty(d, k) == IF k \in DOMAIN d THEN d[k] ELSE EmptyDict

\* A key appended to the dictionary's insertion order unless already present.
Inserted(order, k) == IF \E i \in DOMAIN order : order[i] = k THEN order ELSE Append(order, k)

Entry(file_path, node, class_name) ==
    [file_path |-> file_path, node |-> node, class_name |-> class_name]

\* Variant of Register: a key already present keeps its first entry.
Register_KeepFirst(st, func_name, file_path, node, class_name) ==
    IF func_name \in DOMAIN st.all_functions THEN st
    ELSE [st EXCEPT !.all_functions = Put(@, func_name, Entry(file_path, node, class_name)),
                    !.fn_order = Inserted(@, func_name)]

\* all_functions[func_name] = (file_path, node, class_name)
Register(st, func_name, file_path, node, class_name) ==
    [st EXCEPT !.all_functions = Put(@, func_name, Entry(file_path, node, class_name)),
               !.fn_order = Inserted(@, func_name)]

\* Variant of CollectClassBody: the methods of nested classes are registered too.
RECURSIVE CollectClassBody_Deep(_, _, _, _, _)
CollectClassBody_Deep(st, file_path, module, cls, items) ==
    IF items = <<>> THEN st
    ELSE LET item == Head(items)
             st1  == IF IsFunctionDef(item)
                     THEN Register(st, module \o <<Dot>> \o cls \o <<Dot>> \o item.name,
                                   file_path, item, cls)
                     ELSE IF item.kind = "ClassDef"
                     THEN CollectClassBody_Deep(st, file_path, module, item.name, item.body)
                     ELSE st
         IN  CollectClassBody_Deep(st1, file_path, module, cls, Tail(items))

\* lines 61-64: the methods directly in a class body
RECURSIVE CollectClassBody(_, _, _, _, _)
CollectClassBody(st, file_path, module, cls, items) ==
    IF items = <<>> THEN st
    ELSE LET item == Head(items)
             st1  == IF IsFunctionDef(item)
                     THEN Register(st, module \o <<Dot>> \o cls \o <<Dot>> \o item.name,
                                   file_path, item, cls)
                     ELSE st
         IN  CollectClassBody(st1, file_path, module, cls, Tail(items))

\* lines 67-68
RECURSIVE CollectImport(_, _, _)
CollectImport(st, module, names) ==
    IF names = <<>> THEN st
    ELSE LET alias == Head(names)
             st1 == [st EXCEPT !.module_imports[module] =
                        Put(@, OrElse(alias.asname, alias.name), alias.name)]
         IN  CollectImport(st1, module, Tail(names))

\* lines 70-74
RECURSIVE CollectImportFrom(_, _, _, _)
CollectImportFrom(st, module, mod, names) ==
    IF names = <<>> THEN st
    ELSE LET alias == Head(names)
             local == OrElse(alias.asname, alias.name)
             st1 == [st EXCEPT !.symbol_imports[module] = Put(@, local, <<mod, alias.name>>)]
         IN  CollectImportFrom(st1, module, mod, Tail(names))

\* lines 56-74: one top-level statement
CollectNode(st, file_path, module, node) ==
    IF IsFunctionDef(node)
    THEN Register(st, module \o <<Dot>> \o node.name, file_path, node, None)
    ELSE IF node.kind = "ClassDef"
    THEN CollectClassBody(st, file_path, module, node.name, node.body)
    ELSE IF node.kind = "Import"
    THEN CollectImport(st, module, node.names)
    ELSE IF node.kind = "ImportFrom"
    THEN CollectImportFrom(st, module, node.module, node.names)
    ELSE st

\* line 55: for node in tree.body
RECURSIVE CollectBody(_, _, _, _)
CollectBody(st, file_path, module, body) ==
    IF body = <<>> THEN st
    ELSE CollectBody(CollectNode(st, file_path, module, Head(body)), file_path, module, Tail(body))

\* lines 46-47: the module's two import tables are (re)created empty
ResetImports(st, module) ==
    [st EXCEPT !.module_imports = Put(@, module, EmptyDict),
               !.symbol_imports = Put(@, module, EmptyDict)]

\* lines 45-74: one iteration of the loop over py_files
CollectFile(st, file) ==
    LET module == get_module_name(file.rel)
        st0 == ResetImports(st, module)
    IN  IF ~file.parses
        THEN [st0 EXCEPT !.log = Append(@, file.rel)]
        ELSE CollectBody(st0, file.rel, module, file.body)

\* lines 41-43
EmptyTables ==
    [all_functions |-> EmptyDict, fn_order |-> <<>>,
     module_imports |-> EmptyDict, symbol_imports |-> EmptyDict, log |-> <<>>]

\* the whole of collect_functions_and_imports on a file list
RECURSIVE CollectFrom(_, _)
CollectFrom(st, files) ==
    IF files = <<>> THEN st ELSE CollectFrom(CollectFile(st, Head(files)), Tail(files))

collect_functions_and_imports(files) == CollectFrom(EmptyTables, files)

(***************************************************************************)
(* resolve_function_name.  The code returns a set or None; both falsy      *)
(* results (None, empty set) are the empty set here.                       *)
(***************************************************************************)
\* lines 126-129
LocalScope(name, current_module, functions) ==
    {candidate \in DOMAIN functions :
        StartsWith(candidate, current_module \o <<Dot>>) /\ LastSegment(candidate) = name}

\* lines 133-137
SymbolImport(name, current_module, symbols, functions) ==
    LET table == GetOrEmpty(symbols, current_module)
    IN  IF name \in DOMAIN table
        THEN LET from_mod  == table[name][1]
                 orig_name == table[name][2]
             IN  {k \in DOMAIN functions :
                    EndsWith(k, <<Dot>> \o orig_name) /\ StartsWith(k, OrElse(from_mod, <<>>))}
        ELSE {}

\* lines 143-145
GlobalFallback(name, index) == IF name \in DOMAIN index THEN index[name] ELSE {}

\* Variant of resolve_function_name: the steps accumulate instead of excluding
\* one another.
resolve_function_name_Cumulative(name, current_module, modules, symbols, functions, index) ==
    LocalScope(name, current_module, functions)
        \cup SymbolImport(name, current_module, symbols, functions)
        \cup GlobalFallback(name, index)

resolve_function_name(name, current_module, modules, symbols, functions, index) ==
    LET possible == LocalScope(name, current_module, functions)
        resolved == SymbolImport(name, current_module, symbols, functions)
    IN  IF possible # {} THEN possible
        ELSE IF resolved # {} THEN resolved
        ELSE GlobalFallback(name, index)

(***************************************************************************)
(* build_function_call_graph                                               *)
(***************************************************************************)
\* Variant of ReverseIndex: the entry of a short name is overwritten, not extended.
RECURSIVE ReverseIndex_Overwrite(_, _)
ReverseIndex_Overwrite(index, qnames) ==
    IF qnames = <<>> THEN index
    ELSE ReverseIndex_Overwrite(Put(index, LastSegment(Head(qnames)), {Head(qnames)}),
                                Tail(qnames))

\* lines 83-86: symbol_to_func, in the registry's iteration order
RECURSIVE ReverseIndex(_, _)
ReverseIndex(index, qnames) ==
    IF qnames = <<>> THEN index
    ELSE LET qname == Head(qnames)
             short == LastSegment(qname)
             old   == IF short \in DOMAIN index THEN index[short] ELSE {}
         IN  ReverseIndex(Put(index, short, old \cup {qname}), Tail(qnames))

\* lines 13-16; the annotation is held as the text ast.unparse gives
get_arg_type(arg) == IF arg.annotation # NoAnnotation THEN arg.annotation ELSE "Any"

\* lines 18-21
get_return_type(node) == IF node.returns # NoAnnotation THEN node.returns ELSE "Any"

\* Variant of CalleeName: only name(...) calls give a bare name.
CalleeName_NamesOnly(call_node) ==
    IF call_node.func.kind = "Name" THEN call_node.func.id ELSE None

\* Variant of CalleeName: any attribute call gives its attribute, whatever the
\* receiver.
CalleeName_AnyAttribute(call_node) ==
    IF call_node.func.kind = "Name" THEN call_node.func.id
    ELSE IF call_node.func.kind = "Attribute" THEN call_node.func.attr
    ELSE None

\* lines 100-107: the bare name of a call expression, None when its shape gives none
CalleeName(call_node) ==
    IF call_node.func.kind = "Name" THEN call_node.func.id
    ELSE IF call_node.func.kind = "Attribute"
    THEN IF call_node.func.value.kind = "Name" THEN call_node.func.attr ELSE None
    ELSE None

\* Variant of CallTargets: a name the resolver cannot resolve is recorded as is.
CallTargets_KeepUnresolved(call_node, module, modules, symbols, functions, index) ==
    LET name == CalleeName(call_node)
    IN  IF name # None
        THEN LET resolved == resolve_function_name(name, module, modules, symbols,
                                                   functions, index)
             IN  IF resolved # {} THEN resolved ELSE {name}
        ELSE {}

\* lines 109-112: what one call expression adds to called
CallTargets(call_node, module, modules, symbols, functions, index) ==
    LET name == CalleeName(call_node)
    IN  IF name # None
        THEN LET resolved == resolve_function_name(name, module, modules, symbols,
                                                   functions, index)
             IN  IF resolved # {} /\ \E r \in resolved : r \in DOMAIN functions
                 THEN {r \in resolved : r \in DOMAIN functions}
                 ELSE {}
        ELSE {}

\* lines 97-112: the loop over ast.walk(node)
RECURSIVE CalledFrom(_, _, _, _, _, _, _)
CalledFrom(called, nodes, module, modules, symbols, functions, index) ==
    IF nodes = <<>> THEN called
    ELSE LET call_node == Head(nodes)
             more == IF call_node.kind = "Call"
                     THEN CallTargets(call_node, module, modules, symbols, functions, index)
                     ELSE {}
         IN  CalledFrom(called \cup more, Tail(nodes), module, modules, symbols,
                        functions, index)

\* lines 91-117: the entry of function_details for one registry key
Details(qname, modules, symbols, functions, index) ==
    LET entry  == functions[qname]
        node   == entry.node
        module == get_module_name(entry.file_path)
    IN  [args   |-> [i \in DOMAIN node.args |-> <<node.args[i].arg, get_arg_type(node.args[i])>>],
         return |-> get_return_type(node),
         calls  |-> CalledFrom({}, Walk(node), module, modules, symbols, functions, index)]

\* the whole of build_function_call_graph
RECURSIVE DetailsFrom(_, _, _, _, _, _)
DetailsFrom(details, qnames, modules, symbols, functions, index) ==
    IF qnames = <<>> THEN details
    ELSE DetailsFrom(Put(details, Head(qnames),
                         Details(Head(qnames), modules, symbols, functions, index)),
                     Tail(qnames), modules, symbols, functions, index)

build_function_call_graph(st) ==
    DetailsFrom(EmptyDict, st.fn_order, st.module_imports, st.symbol_imports,
                st.all_functions, ReverseIndex(EmptyDict, st.fn_order))

(***************************************************************************)
(* write_markdown: one report section per definition, in sorted order; a   *)
(* section is the heading's parts and the "- Calls:" line.                 *)
(***************************************************************************)
Section(qname, details) ==
    [qname  |-> qname,
     args   |-> details.args,
     return |-> details.return,
     calls  |-> IF details.calls # {}
                THEN [none |-> FALSE, names |-> Sorted(details.calls)]
                ELSE [none |-> TRUE, names |-> <<>>]]

write_markdown(details) ==
    LET keys == Sorted(DOMAIN details)
    IN  [i \in DOMAIN keys |-> Section(keys[i], details[keys[i]])]

\* main: the analysis of a file list, end to end
Analyse(files) ==
    LET st == collect_functions_and_imports(files)
        fd == build_function_call_graph(st)
    IN  [all_functions |-> st.all_functions, module_imports |-> st.module_imports,
         symbol_imports |-> st.symbol_imports, log |-> st.log,
         function_details |-> fd, md |-> write_markdown(fd)]

(***************************************************************************)
(* The run of main() as a state machine                                    *)
(***************************************************************************)
VARIABLES
    py_files,          \* the file list (find_python_files)
    pc,                \* "collect", "graph", "render", "done"
    processed,         \* number of files the collection loop has handled
    all_functions, fn_order, module_imports, symbol_imports, log,
    symbol_to_func,
    function_details,
    built,             \* number of registry keys the graph loop has handled
    md

vars == <<py_files, pc, processed, all_functions, fn_order, module_imports,
          symbol_imports, log, symbol_to_func, function_details, built, md>>

Tables ==
    [all_functions |-> all_functions, fn_order |-> fn_order,
     module_imports |-> module_imports, symbol_imports |-> symbol_imports, log |-> log]

SetTables(st) ==
    /\ all_functions' = st.all_functions
    /\ fn_order' = st.fn_order
    /\ module_imports' = st.module_imports
    /\ symbol_imports' = st.symbol_imports
    /\ log' = st.log

Init ==
    /\ py_files \in FileLists
    /\ pc = "collect"
    /\ processed = 0
    /\ all_functions = EmptyDict
    /\ fn_order = <<>>
    /\ module_imports = EmptyDict
    /\ symbol_imports = EmptyDict
    /\ log = <<>>
    /\ symbol_to_func = EmptyDict
    /\ function_details = EmptyDict
    /\ built = 0
    /\ md = <<>>

\* lines 44-54: a file ast.parse rejects
CollectSkipFile ==
    /\ pc = "collect"
    /\ processed < Len(py_files)
    /\ ~py_files[processed + 1].parses
    /\ SetTables(CollectFile(Tables, py_files[processed + 1]))
    /\ processed' = processed + 1
    /\ UNCHANGED <<py_files, pc, symbol_to_func, function_details, built, md>>

\* lines 44-74: a file that parses
CollectParsedFile ==
    /\ pc = "collect"
    /\ processed < Len(py_files)
    /\ py_files[processed + 1].parses
    /\ SetTables(CollectFile(Tables, py_files[processed + 1]))
    /\ processed' = processed + 1
    /\ UNCHANGED <<py_files, pc, symbol_to_func, function_details, built, md>>

\* lines 75, 83-89: collection returns, the reverse index is built
BuildReverseIndex ==
    /\ pc = "collect"
    /\ processed = Len(py_files)
    /\ symbol_to_func' = ReverseIndex(EmptyDict, fn_order)
    /\ pc' = "graph"
    /\ UNCHANGED <<py_files, processed, all_functions, fn_order, module_imports,
                   symbol_imports, log, function_details, built, md>>

\* lines 90-117: one iteration of the loop over all_functions.items()
BuildDetails ==
    /\ pc = "graph"
    /\ built < Len(fn_order)
    /\ function_details' =
          Put(function_details, fn_order[built + 1],
              Details(fn_order[built + 1], module_imports, symbol_imports,
                      all_functions, symbol_to_func))
    /\ built' = built + 1
    /\ UNCHANGED <<py_files, pc, processed, all_functions, fn_order, module_imports,
                   symbol_imports, log, symbol_to_func, md>>

\* lines 118, 149-162, 200-203
WriteMarkdown ==
    /\ pc = "graph"
    /\ built = Len(fn_order)
    /\ md' = write_markdown(function_details)
    /\ pc' = "done"
    /\ UNCHANGED <<py_files, processed, all_functions, fn_order, module_imports,
                   symbol_imports, log, symbol_to_func, function_details, built>>

Next ==
    \/ CollectSkipFile
    \/ CollectParsedFile
    \/ BuildReverseIndex
    \/ BuildDetails
    \/ WriteMarkdown

Spec == Init /\ [][Next]_vars

\* The run's state agrees with the functions applied to the whole file list.
RunMatchesFunctions ==
    pc = "done" =>
        LET r == Analyse(py_files)
        IN  /\ r.all_functions = all_functions
            /\ r.module_imports = module_imports
            /\ r.symbol_imports = symbol_imports
            /\ r.function_details = function_details
            /\ r.md = md
            /\ r.log = log

(***************************************************************************)
(* Vocabulary of the properties                                            *)
(***************************************************************************)
Keys == DOMAIN all_functions

\* the registry, the import tables and the reverse index are final once the
\* reverse index is built; the resolver is examined on them at the end of the run
IndexBuilt == pc = "done"

ModuleOfFile(file) == get_module_name(file.rel)

\* the module of the file the registry records for a key
DefiningModule(q) == get_module_name(all_functions[q].file_path)

\* identifiers and module names the properties range over
BareNames ==
    {<<c>> : c \in {"h", "f", "m", "n", "u", "v", "k", "g", "p", "q", "t", "e", "i",
                    "w", "x", "y", "s", "d", "z", "C", "D"}}

CallingModules == {ModuleOfFile(file) : file \in Catalogue} \cup {<<"z">>, <<>>}

\* every node below (and including) a node, by descent through its children
RECURSIVE Descendants(_)
Descendants(node) ==
    {node} \cup UNION {Descendants(Children(node)[i]) : i \in DOMAIN Children(node)}

CallsIn(node) == {c \in Descendants(node) : c.kind = "Call"}

\* the two call shapes that give a bare name
IsNameCall(c) == c.func.kind = "Name"
IsReceiverCall(c) == c.func.kind = "Attribute" /\ c.func.value.kind = "Name"
BareNameOf(c) == IF IsNameCall(c) THEN c.func.id ELSE c.func.attr

\* the candidates of each resolver step, read off the registry and the tables
LocalCandidates(n, M) ==
    {k \in Keys : StartsWith(k, M \o <<Dot>>) /\ LastSegment(k) = n}

IsSymbolImport(n, M) == M \in DOMAIN symbol_imports /\ n \in DOMAIN symbol_imports[M]

ImportCandidates(n, M) ==
    IF IsSymbolImport(n, M)
    THEN {k \in Keys : /\ EndsWith(k, <<Dot>> \o symbol_imports[M][n][2])
                       /\ StartsWith(k, symbol_imports[M][n][1])}
    ELSE {}

GlobalCandidates(n) == {k \in Keys : LastSegment(k) = n}

FirstNonEmpty(n, M) ==
    IF LocalCandidates(n, M) # {} THEN LocalCandidates(n, M)
    ELSE IF ImportCandidates(n, M) # {} THEN ImportCandidates(n, M)
    ELSE GlobalCandidates(n)

\* what the resolver returns for a name called in a module, in the current state
Resolved(n, M) ==
    resolve_function_name(n, M, module_imports, symbol_imports, all_functions, symbol_to_func)

\* what one call expression of definition q adds to q's call-edge set
Adds(c, q) ==
    CallTargets(c, DefiningModule(q), module_imports, symbol_imports, all_functions,
                symbol_to_func)

Edges(q) == function_details[q].calls

\* the definitions of the files processed so far, each with its position
\* (file, statement, item) in processing order; item 0 is a top-level function
ProcessedFiles == {i \in 1..processed : py_files[i].parses}

FunctionAt(i, j) ==
    [q |-> ModuleOfFile(py_files[i]) \o <<Dot>> \o py_files[i].body[j].name,
     cls |-> None, node |-> py_files[i].body[j], file |-> i, stmt |-> j, item |-> 0]

MethodAt(i, j, k) ==
    [q |-> ModuleOfFile(py_files[i]) \o <<Dot>> \o py_files[i].body[j].name
               \o <<Dot>> \o py_files[i].body[j].body[k].name,
     cls |-> py_files[i].body[j].name, node |-> py_files[i].body[j].body[k],
     file |-> i, stmt |-> j, item |-> k]

TopLevelDefs ==
    UNION {{FunctionAt(i, j) :
               j \in {x \in DOMAIN py_files[i].body : IsFunctionDef(py_files[i].body[x])}} :
           i \in ProcessedFiles}

MethodsOfClassAt(i, j) ==
    {MethodAt(i, j, k) :
        k \in {x \in DOMAIN py_files[i].body[j].body :
                 IsFunctionDef(py_files[i].body[j].body[x])}}

MethodDefs ==
    UNION {UNION {MethodsOfClassAt(i, j) :
                     j \in {x \in DOMAIN py_files[i].body :
                              py_files[i].body[x].kind = "ClassDef"}} :
           i \in ProcessedFiles}

ProcessedDefs == TopLevelDefs \cup MethodDefs

ProcessedLater(d, e) ==
    \/ d.file < e.file
    \/ d.file = e.file /\ d.stmt < e.stmt
    \/ d.file = e.file /\ d.stmt = e.stmt /\ d.item < e.item

IsLastOfItsName(d) == ~ \E e \in ProcessedDefs : e.q = d.q /\ ProcessedLater(d, e)

C2_LocalOnlyOwnModule ==
    IndexBuilt =>
        \A M \in CallingModules : \A n \in BareNames :
            (\E k \in Keys : DefiningModule(k) = M /\ LastSegment(k) = n)
               => \A r \in Resolved(n, M) : DefiningModule(r) = M

(***************************************************************************)
(* C3.  Symbol-import resolution.                                          *)
(***************************************************************************)
\* C3 as stated: with `from O import s as l` in M, no local definition of M
\* ending in l, and O.s registered, a call l() in a definition of M adds O.s
\* and no other definition named s.
C3_ImportOnlyOrigin ==
    \A q \in DOMAIN function_details :
       \A c \in CallsIn(all_functions[q].node) :
          LET M == DefiningModule(q)
              l == BareNameOf(c)
          IN  (/\ IsNameCall(c)
               /\ IsSymbolImport(l, M)
               /\ LocalCandidates(l, M) = {}
               /\ symbol_imports[M][l][1] \o <<Dot>> \o symbol_imports[M][l][2] \in Keys)
              => /\ symbol_imports[M][l][1] \o <<Dot>> \o symbol_imports[M][l][2] \in Edges(q)
                 /\ \A t \in Adds(c, q) :
                       LastSegment(t) = symbol_imports[M][l][2]
                          => t = symbol_imports[M][l][1] \o <<Dot>> \o symbol_imports[M][l][2]

(***************************************************************************)
(* C4.  Resolver step order.                                               *)
(***************************************************************************)
\* C4: for every bare name and calling module the resolver returns the
\* candidates of the first non-empty step among local scope, symbol import
\* and global fallback, of that step only, and nothing exactly when all three
\* are empty.
C4_StepOrder ==
    IndexBuilt =>
        \A M \in CallingModules : \A n \in BareNames :
           /\ Resolved(n, M) = FirstNonEmpty(n, M)
           /\ Resolved(n, M) = {} <=> /\ LocalCandidates(n, M) = {}
                                      /\ ImportCandidates(n, M) = {}
                                      /\ GlobalCandidates(n) = {}

\* module a (a/__init__.py) has `from z import u`, nothing registered starts
\* with z, and the call of u in a.h fell through to the global candidates;
\* module a also has a local h that hides b.h
C4_Witness ==
    /\ pc = "done"
    /\ IsSymbolImport(<<"u">>, <<"a">>)
    /\ symbol_imports[<<"a">>][<<"u">>][1] = <<"z">>
    /\ ImportCandidates(<<"u">>, <<"a">>) = {}
    /\ Edges(<<"a", ".", "h">>) = {<<"b", ".", "u">>, <<"b", "c", ".", "u">>}
    /\ Resolved(<<"h">>, <<"a">>) = {<<"a", ".", "h">>}

(***************************************************************************)
(* C5.  Partial-failure isolation.                                         *)
(***************************************************************************)
ParsingFiles(files) == SelectSeq(files, LAMBDA file : file.parses)

\* C5 as stated: the registry, the call edges, the report and the import
\* tables of the modules of the files that parse are what the analysis gives
\* for the file list without the files that fail to parse.
C5_FailingFileIsolated ==
    pc = "done" =>
        LET r == Analyse(ParsingFiles(py_files))
        IN  /\ all_functions = r.all_functions
            /\ function_details = r.function_details
            /\ md = r.md
            /\ \A M \in DOMAIN r.symbol_imports :
                  /\ symbol_imports[M] = r.symbol_imports[M]
                  /\ module_imports[M] = r.module_imports[M]

(***************************************************************************)
(* C6.  Order independence.                                                *)
(***************************************************************************)
Reorderings(files) ==
    {[i \in DOMAIN files |-> files[p[i]]] : p \in Permutations(DOMAIN files)}

SameAnalysis(r) ==
    /\ r.all_functions = all_functions
    /\ r.module_imports = module_imports
    /\ r.symbol_imports = symbol_imports
    /\ r.function_details = function_details
    /\ r.md = md

\* the qualified names one file registers
NamesOfFile(file) ==
    IF file.parses THEN DOMAIN collect_functions_and_imports(<<file>>).all_functions ELSE {}

NothingShared(files) ==
    \A i, j \in DOMAIN files :
        i # j => /\ ModuleOfFile(files[i]) # ModuleOfFile(files[j])
                 /\ NamesOfFile(files[i]) \cap NamesOfFile(files[j]) = {}

\* C6 as stated, on the file lists it includes whose files all parse and map
\* to distinct module names while two definitions produce the same qualified
\* name: every processing order of the files gives the same registry, import
\* tables, call edges and report.
C6_AnyOrderSameResult ==
    (/\ pc = "done"
     /\ \A i \in DOMAIN py_files : py_files[i].parses
     /\ \A i, j \in DOMAIN py_files :
           i # j => ModuleOfFile(py_files[i]) # ModuleOfFile(py_files[j]))
        => \A files \in Reorderings(py_files) : SameAnalysis(Analyse(files))

\* C6 amended: when no two files map to the same module name and no two files
\* produce the same qualified name, every processing order gives the same
\* registry, import tables, call edges and report, and logs the same files.
C6_OrderIndependent ==
    pc = "done" /\ NothingShared(py_files) =>
        \A files \in Reorderings(py_files) :
            /\ SameAnalysis(Analyse(files))
            /\ {Analyse(files).log[i] : i \in DOMAIN Analyse(files).log}
                  = {log[i] : i \in DOMAIN log}

\* a/__init__.py, b.py and bc.py share no module and no qualified name; a.h of
\* a/__init__.py reached b.u and bc.u through the reverse index
C6_Witness ==
    /\ pc = "done"
    /\ NothingShared(py_files)
    /\ Len(py_files) >= 2
    /\ <<"a", ".", "h">> \in DOMAIN function_details
    /\ Edges(<<"a", ".", "h">>) = {<<"b", ".", "u">>, <<"b", "c", ".", "u">>}

(***************************************************************************)
(* C7.  Registry contents after collection.                                *)
(***************************************************************************)
\* C7 as stated: the registry's keys are exactly mod.f for the top-level
\* functions and mod.C.m for the methods directly in top-level classes of the
\* files that parsed, each top-level function recorded with no enclosing
\* class and each method with its class.
C7_RegistryAsStated ==
    /\ Keys = {d.q : d \in ProcessedDefs}
    /\ \A d \in ProcessedDefs : all_functions[d.q].class_name = d.cls

\* C7 amended: the keys are exactly those names, and each definition is
\* recorded with no enclosing class (function) or its class (method) unless a
\* definition processed later produced the same qualified name.
C7_RegistryContents ==
    /\ Keys = {d.q : d \in ProcessedDefs}
    /\ \A d \in ProcessedDefs :
          IsLastOfItsName(d) => all_functions[d.q].class_name = d.cls

\* a.py and a/s.py are collected: a.C.m is registered with class C, the
\* method of the nested class, the nested function and the function under
\* `if` are not registered
C7_Witness ==
    /\ processed = Len(py_files)
    /\ <<"a", ".", "C", ".", "m">> \in Keys
    /\ all_functions[<<"a", ".", "C", ".", "m">>].class_name = <<"C">>
    /\ <<"a", ".", "s", ".", "q">> \in Keys
    /\ all_functions[<<"a", ".", "s", ".", "q">>].class_name = None
    /\ \A k \in Keys : LastSegment(k) \notin {<<"n">>, <<"i">>, <<"w">>}

(***************************************************************************)
(* C8.  Last definition wins.                                              *)
(***************************************************************************)
NamedCalls(node) == {c \in CallsIn(node) : IsNameCall(c) \/ IsReceiverCall(c)}

\* C8: the registry entry of a qualified name is the file, node and class of
\* the definition of that name processed last, and its enriched parameters,
\* return type and call edges are those of that definition in that file's
\* module.
C8_LastDefinitionWins ==
    \A d \in ProcessedDefs :
        IsLastOfItsName(d) =>
           /\ all_functions[d.q] = Entry(py_files[d.file].rel, d.node, d.cls)
           /\ d.q \in DOMAIN function_details =>
                 /\ function_details[d.q].args =
                       [i \in DOMAIN d.node.args |->
                           <<d.node.args[i].arg,
                             IF d.node.args[i].annotation = NoAnnotation
                             THEN "Any" ELSE d.node.args[i].annotation>>]
                 /\ function_details[d.q].return =
                       IF d.node.returns = NoAnnotation THEN "Any" ELSE d.node.returns
                 /\ Edges(d.q) =
                       UNION {FirstNonEmpty(BareNameOf(c), ModuleOfFile(py_files[d.file])) :
                                c \in NamedCalls(d.node)}

\* two definitions of one name in different files, with different class,
\* return type and call edges; the run is over
C8_Witness ==
    /\ pc = "done"
    /\ \E d, e \in ProcessedDefs :
          /\ d.q = e.q
          /\ ProcessedLater(e, d)
          /\ IsLastOfItsName(d)
          /\ e.file # d.file
          /\ e.cls # d.cls
          /\ e.node.returns # d.node.returns
          /\ function_details[d.q].return = "int"
          /\ Edges(d.q) # {}

(***************************************************************************)
(* C9.  Calls qualified by a module alias.                                 *)
(***************************************************************************)
IsAliasCall(c, M) ==
    /\ IsReceiverCall(c)
    /\ c.func.value.id \in DOMAIN GetOrEmpty(module_imports, M)

\* C9 as stated: a call alias.func(...) whose receiver is a key of the calling
\* module's module-alias table adds no call edge.
C9_AliasCallsAddNothing ==
    \A q \in DOMAIN function_details :
       \A c \in CallsIn(all_functions[q].node) :
          IsAliasCall(c, DefiningModule(q)) => Adds(c, q) = {}

\* C9 amended: a call alias.func(...) is resolved as the bare name func, the
\* alias table not being consulted: it adds the candidates of the first
\* non-empty resolver step for func in the calling module, and they are in the
\* definition's call-edge set.
C9_AliasCallsResolveByName ==
    \A q \in DOMAIN function_details :
       \A c \in CallsIn(all_functions[q].node) :
          IsAliasCall(c, DefiningModule(q)) =>
             /\ Adds(c, q) = FirstNonEmpty(c.func.attr, DefiningModule(q))
             /\ Adds(c, q) \subseteq Edges(q)

\* a.py has `import bc as k`; k.t() in a.f gave the edge bc.t
C9_Witness ==
    /\ <<"a", ".", "f">> \in DOMAIN function_details
    /\ <<"k">> \in DOMAIN GetOrEmpty(module_imports, <<"a">>)
    /\ module_imports[<<"a">>][<<"k">>] = <<"b", "c">>
    /\ <<"b", "c", ".", "t">> \in Edges(<<"a", ".", "f">>)

(***************************************************************************)
(* C10.  Call-edge construction.                                           *)
(***************************************************************************)
\* C10: the call-edge set of an enriched definition is the union, over the
\* call expressions anywhere below it whose callee is name(...) or
\* receiver.attr(...) with a simple receiver, of the resolver's result for the
\* name (resp. attr) in the definition's module, restricted to registry keys;
\* no other call shape adds anything.
C10_CallEdges ==
    \A q \in DOMAIN function_details :
        Edges(q) = UNION {FirstNonEmpty(BareNameOf(c), DefiningModule(q)) \cap Keys :
                            c \in NamedCalls(all_functions[q].node)}

\* a.C.m calls x.y.g(), d[0]() and w()() while b.g is registered and is not
\* an edge; a.s.q reaches a.s.h from a lambda and b.u from a nested function;
\* a.f calls h() twice
C10_Witness ==
    /\ pc = "done"
    /\ <<"b", ".", "g">> \in Keys
    /\ <<"a", ".", "C", ".", "m">> \in Keys
    /\ all_functions[<<"a", ".", "C", ".", "m">>].class_name = <<"C">>
    /\ <<"b", ".", "g">> \notin Edges(<<"a", ".", "C", ".", "m">>)
    /\ <<"a", ".", "s", ".", "q">> \in Keys
    /\ Edges(<<"a", ".", "s", ".", "q">>) = {<<"a", ".", "s", ".", "h">>, <<"b", ".", "u">>}
    /\ <<"a", ".", "h">> \in Edges(<<"a", ".", "f">>)

====
